---- MODULE Spec2Model ----
(***************************************************************************)
(* A model of CoreAudioML/training.py: the loss metrics ESRLoss and DCLoss, *)
(* the PreEmph FIR filter, the LossWrapper aggregator and the TrainTrack    *)
(* bookkeeping dictionary.                                                  *)
(*                                                                          *)
(* Signals are tensors of shape (time, batch, 1); the channel axis has size *)
(* 1 throughout (PreEmph pads with torch.zeros(zPad, batch, 1)), so a       *)
(* tensor is a sequence over time of sequences over batch of samples.       *)
(* Floating point arithmetic is modelled by exact rational arithmetic:      *)
(* scalars are signed fractions of arbitrary-size naturals, kept as limb    *)
(* sequences, so that epsilon = 0.00001 and 1e12 keep their values.         *)
(***************************************************************************)
EXTENDS Integers, Sequences, FiniteSets, TLC

VARIABLES output, target, result, filt, wrapper, pc, args, idx, acc, ret, track, passed

vars == <<output, target, result, filt, wrapper, pc, args, idx, acc, ret, track, passed>>

(***************************************************************************)
(* Bounds of the model.                                                     *)
(***************************************************************************)
MaxElems == 2
MaxFiltElems == 3
MaxTaps == 3
MaxPreTaps == 2
MaxKeys == 2
MaxCalls == 3

Samples == {-1, 0, 1}
Bits == {0, 1}
Scales == {-2, -1, 1, 2}
TapVals == {-1, 1}

(***************************************************************************)
(* Naturals of arbitrary size: little-endian limbs in 0..Base-1, no        *)
(* leading zero limb, zero is the empty sequence.                           *)
(***************************************************************************)
Base == 100 * 100

Abs(x) == IF x < 0 THEN -x ELSE x

RECURSIVE ToMag(_)
ToMag(x) == IF x = 0 THEN <<>> ELSE <<x % Base>> \o ToMag(x \div Base)

Limb(a, i) == IF i <= Len(a) THEN a[i] ELSE 0

RECURSIVE Trim(_)
Trim(a) == IF a = <<>> THEN <<>>
           ELSE IF a[Len(a)] = 0 THEN Trim(SubSeq(a, 1, Len(a) - 1))
           ELSE a

RECURSIVE AddFrom(_, _, _, _)
AddFrom(a, b, i, c) ==
    IF i > Len(a) /\ i > Len(b)
    THEN (IF c = 0 THEN <<>> ELSE <<c>>)
    ELSE LET s == Limb(a, i) + Limb(b, i) + c
         IN  <<s % Base>> \o AddFrom(a, b, i + 1, s \div Base)

MagAdd(a, b) == AddFrom(a, b, 1, 0)

RECURSIVE SubFrom(_, _, _, _)
SubFrom(a, b, i, c) ==
    IF i > Len(a) THEN <<>>
    ELSE LET s == Limb(a, i) - Limb(b, i) - c
         IN  IF s < 0 THEN <<s + Base>> \o SubFrom(a, b, i + 1, 1)
                      ELSE <<s>> \o SubFrom(a, b, i + 1, 0)

\* a - b for a >= b
MagSub(a, b) == Trim(SubFrom(a, b, 1, 0))

RECURSIVE MulLimbFrom(_, _, _, _)
MulLimbFrom(a, m, i, c) ==
    IF i > Len(a)
    THEN (IF c = 0 THEN <<>> ELSE <<c>>)
    ELSE LET s == a[i] * m + c
         IN  <<s % Base>> \o MulLimbFrom(a, m, i + 1, s \div Base)

RECURSIVE MagMul(_, _)
MagMul(a, b) ==
    IF a = <<>> \/ b = <<>> THEN <<>>
    ELSE LET rest == MagMul(a, Tail(b))
         IN  MagAdd(Trim(MulLimbFrom(a, Head(b), 1, 0)),
                    IF rest = <<>> THEN <<>> ELSE <<0>> \o rest)

RECURSIVE LessFrom(_, _, _)
LessFrom(a, b, i) ==
    IF i = 0 THEN FALSE
    ELSE IF a[i] # b[i] THEN a[i] < b[i]
    ELSE LessFrom(a, b, i - 1)

MagLess(a, b) ==
    IF Len(a) # Len(b) THEN Len(a) < Len(b) ELSE LessFrom(a, b, Len(a))

(***************************************************************************)
(* Scalars: signed fractions n/d of naturals.  d = <<>> is the outcome of a *)
(* division by zero (inf or nan in the code).                               *)
(***************************************************************************)
Frac(neg, n, d) == [neg |-> neg /\ n # <<>>, n |-> n, d |-> d]

FromRatio(n, d) == Frac(n < 0, ToMag(Abs(n)), ToMag(d))

Zero == FromRatio(0, 1)

Defined(x) == x.d # <<>>

FMul(x, y) == Frac(x.neg # y.neg, MagMul(x.n, y.n), MagMul(x.d, y.d))

FDiv(x, y) == Frac(x.neg # y.neg, MagMul(x.n, y.d), MagMul(x.d, y.n))

FAdd(x, y) ==
    LET a == MagMul(x.n, y.d)
        b == MagMul(y.n, x.d)
        d == MagMul(x.d, y.d)
    IN  IF x.neg = y.neg THEN Frac(x.neg, MagAdd(a, b), d)
        ELSE IF MagLess(a, b) THEN Frac(y.neg, MagSub(b, a), d)
        ELSE Frac(x.neg, MagSub(a, b), d)

FEq(x, y) ==
    /\ Defined(x) = Defined(y)
    /\ x.neg = y.neg
    /\ MagMul(x.n, y.d) = MagMul(y.n, x.d)

FLess(x, y) ==
    LET a == MagMul(x.n, y.d)
        b == MagMul(y.n, x.d)
    IN  IF x.neg # y.neg THEN x.neg
        ELSE IF x.neg THEN MagLess(b, a)
        ELSE MagLess(a, b)

FNonNeg(x) == Defined(x) /\ ~x.neg

FPositive(x) == Defined(x) /\ ~x.neg /\ x.n # <<>>

(***************************************************************************)
(* Tensors of shape (time, batch, 1).                                       *)
(***************************************************************************)
SeqsOf(S, n) == [1..n -> S]

Tensors(T, B, S) == [1..T -> [1..B -> S]]

Shapes(maxElems) == {s \in (1..maxElems) \X (1..maxElems) : s[1] * s[2] <= maxElems}

Signals(maxElems, S) == UNION {Tensors(s[1], s[2], S) : s \in Shapes(maxElems)}

TLen(x) == Len(x)

BLen(x) == Len(x[1])

Shape(x) == <<TLen(x), BLen(x), 1>>

Numel(x) == TLen(x) * BLen(x)

Max(a, b) == IF a >= b THEN a ELSE b

\* torch broadcasting of two sizes of one axis
AxisOK(a, b) == a = b \/ a = 1 \/ b = 1

\* element (t, b) of x expanded to a broadcast shape
At(x, t, b) == x[IF TLen(x) = 1 THEN 1 ELSE t][IF BLen(x) = 1 THEN 1 ELSE b]

RECURSIVE SumTo(_, _)
SumTo(f, n) == IF n = 0 THEN 0 ELSE f[n] + SumTo(f, n - 1)

Sum(f) == SumTo(f, Len(f))

\* sum over all elements of an integer tensor
SumAll(x) == Sum([t \in 1..TLen(x) |-> Sum(x[t])])

Scaled(c, x) == [t \in 1..TLen(x) |-> [b \in 1..BLen(x) |-> c * x[t][b]]]

Squared(x) == [t \in 1..TLen(x) |-> [b \in 1..BLen(x) |-> x[t][b] * x[t][b]]]

ZeroSignal(x) == \A t \in 1..TLen(x) : \A b \in 1..BLen(x) : x[t][b] = 0

(***************************************************************************)
(* Outcomes of a call: a value, or the exception it raised.                 *)
(***************************************************************************)
Ok(v) == [err |-> "", val |-> v]

Raise(e) == [err |-> e, val |-> Zero]

NoResult == [op |-> "none", c |-> 1, err |-> "", val |-> Zero]

(***************************************************************************)
(* ESRLoss and DCLoss.                                                      *)
(***************************************************************************)
EpsDen == 100000

Epsilon == FromRatio(1, EpsDen)

\* an ESRLoss whose epsilon is zero
ESRLoss_init_NoFloor == [cls |-> "ESRLoss", epsilon |-> Zero]

ESRLoss_init == [cls |-> "ESRLoss", epsilon |-> Epsilon]

DCLoss_init == [cls |-> "DCLoss", epsilon |-> Epsilon]

\* the energy without the epsilon term
EnergyNoEpsilon(self, tgt) == FromRatio(SumAll(Squared(tgt)), Numel(tgt))

\* torch.mean(torch.pow(target, 2)) + self.epsilon
Energy(self, tgt) == FAdd(FromRatio(SumAll(Squared(tgt)), Numel(tgt)), self.epsilon)

ESRLoss_forward(self, out, tgt) ==
    IF ~(AxisOK(TLen(tgt), TLen(out)) /\ AxisOK(BLen(tgt), BLen(out)))
    THEN Raise("RuntimeError")
    ELSE LET T == Max(TLen(tgt), TLen(out))
             B == Max(BLen(tgt), BLen(out))
             diff == [t \in 1..T |-> [b \in 1..B |-> At(tgt, t, b) + (-At(out, t, b))]]
             loss == FromRatio(SumAll(Squared(diff)), T * B)
         IN  Ok(FDiv(loss, Energy(self, tgt)))

\* a DC loss that adds the two time means instead of subtracting them
DCLoss_forward_SignLost(self, out, tgt) ==
    IF ~AxisOK(BLen(tgt), BLen(out))
    THEN Raise("RuntimeError")
    ELSE LET B == Max(BLen(tgt), BLen(out))
             tsum(b) == Sum([t \in 1..TLen(tgt) |-> At(tgt, t, b)])
             osum(b) == Sum([t \in 1..TLen(out) |-> At(out, t, b)])
             dnum == [b \in 1..B |-> tsum(b) * TLen(out) + osum(b) * TLen(tgt)]
             sq == Sum([b \in 1..B |-> dnum[b] * dnum[b]])
             loss == FromRatio(sq, B * (TLen(tgt) * TLen(out)) * (TLen(tgt) * TLen(out)))
         IN  Ok(FDiv(loss, Energy(self, tgt)))

DCLoss_forward(self, out, tgt) ==
    IF ~AxisOK(BLen(tgt), BLen(out))
    THEN Raise("RuntimeError")
    ELSE LET B == Max(BLen(tgt), BLen(out))
             Tt == TLen(tgt)
             To == TLen(out)
             \* torch.mean(x, 0)[b] = colsum/T; the difference of the two means
             \* over the common denominator Tt * To
             tsum(b) == Sum([t \in 1..Tt |-> At(tgt, t, b)])
             osum(b) == Sum([t \in 1..To |-> At(out, t, b)])
             dnum == [b \in 1..B |-> tsum(b) * To - osum(b) * Tt]
             sq == Sum([b \in 1..B |-> dnum[b] * dnum[b]])
             loss == FromRatio(sq, B * (Tt * To) * (Tt * To))
         IN  Ok(FDiv(loss, Energy(self, tgt)))

(***************************************************************************)
(* Specification of the two metrics: a caller holds a pair of signals and   *)
(* calls a metric on the pair scaled by a constant c.                       *)
(***************************************************************************)
NoObj == [cls |-> "none"]

Threads == {1, 2}

Idle == [th \in Threads |-> "idle"]

NoPair == <<<<<<0>>>>, <<<<0>>>>>>

TrackInit == [cls |-> "none"]

Quiet ==
    /\ filt = NoObj
    /\ wrapper = NoObj
    /\ pc = Idle
    /\ args = [th \in Threads |-> NoPair]
    /\ idx = [th \in Threads |-> 0]
    /\ acc = [th \in Threads |-> Zero]
    /\ ret = [th \in Threads |-> NoResult]
    /\ track = TrackInit
    /\ passed = <<>>

\* the signals of at most MaxElems samples, and one longer signal whose time
\* length broadcasts against none of the others but the one-sample signals
LongSignal == [t \in 1..(MaxElems + 1) |-> <<t % 2>>]

Inputs == Signals(MaxElems, Samples) \cup {LongSignal}

Init ==
    /\ output \in Inputs
    /\ target \in Inputs
    /\ result = NoResult
    /\ Quiet

Called(op, c, r) == [op |-> op, c |-> c, err |-> r.err, val |-> r.val]

ESRForward(c) ==
    /\ result' = Called("ESR", c, ESRLoss_forward(ESRLoss_init, Scaled(c, output), Scaled(c, target)))
    /\ UNCHANGED <<output, target, filt, wrapper, pc, args, idx, acc, ret, track, passed>>

DCForward(c) ==
    /\ result' = Called("DC", c, DCLoss_forward(DCLoss_init, Scaled(c, output), Scaled(c, target)))
    /\ UNCHANGED <<output, target, filt, wrapper, pc, args, idx, acc, ret, track, passed>>

Next ==
    \/ \E c \in Scales : ESRForward(c)
    \/ DCForward(1)

Spec == Init /\ [][Next]_vars

(***************************************************************************)
(* PreEmph: an FIR filter applied to output and target alike.               *)
(***************************************************************************)
LpNum == 17
LpDen == 20

TapSeqs(n) == UNION {SeqsOf(TapVals, k) : k \in 0..n}

\* the fixed low-pass taps (0.85, 1) in units of 1/LpDen
LowPassTaps == <<LpNum, LpDen>>

PreEmph_init(filter_cfs, low_pass) ==
    [cls |-> "PreEmph",
     epsilon |-> Epsilon,
     zPad |-> Len(filter_cfs) - 1,
     conv_filter |-> filter_cfs,
     low_pass |-> low_pass,
     lp_filter |-> IF low_pass # 0 THEN LowPassTaps ELSE <<>>]

\* torch.cat((torch.zeros(n, batch, 1), x))
ZeroPad(n, x) == [t \in 1..n |-> [b \in 1..BLen(x) |-> 0]] \o x

\* nn.Conv1d without padding, stride 1, no bias, along the time axis
ConvLen(x, w) == TLen(x) - Len(w) + 1

Conv1d(x, w) ==
    [n \in 1..ConvLen(x, w) |->
        [b \in 1..BLen(x) |-> Sum([j \in 1..Len(w) |-> w[j] * x[n + j - 1][b]])]]

Filtered(e, o, t, d) == [err |-> e, out |-> o, tgt |-> t, den |-> d]

PreEmph_forward(self, out, tgt) ==
    IF self.zPad < 0 THEN Filtered("RuntimeError", <<>>, <<>>, 1)
    ELSE LET po == ZeroPad(self.zPad, out)
             pt == ZeroPad(self.zPad, tgt)
         IN  IF ConvLen(po, self.conv_filter) < 1 \/ ConvLen(pt, self.conv_filter) < 1
             THEN Filtered("RuntimeError", <<>>, <<>>, 1)
             ELSE LET co == Conv1d(po, self.conv_filter)
                      ct == Conv1d(pt, self.conv_filter)
                  IN  IF self.low_pass = 0 THEN Filtered("", co, ct, 1)
                      ELSE IF ConvLen(co, self.lp_filter) < 1 \/ ConvLen(ct, self.lp_filter) < 1
                      THEN Filtered("RuntimeError", <<>>, <<>>, 1)
                      ELSE Filtered("", Conv1d(co, self.lp_filter),
                                        Conv1d(ct, self.lp_filter), LpDen)

(***************************************************************************)
(* Specification of the filter: one PreEmph object is constructed and then  *)
(* applied to the caller's pair of signals.                                 *)
(***************************************************************************)
InitFilter ==
    /\ output \in Signals(MaxFiltElems, Samples)
    /\ target \in Signals(MaxFiltElems, Samples)
    /\ result = NoResult
    /\ Quiet

ConstructPreEmph ==
    /\ filt = NoObj
    /\ \E filter_cfs \in TapSeqs(MaxTaps), low_pass \in {0, 1} :
          filt' = PreEmph_init(filter_cfs, low_pass)
    /\ UNCHANGED <<output, target, result, wrapper, pc, args, idx, acc, ret, track, passed>>

PreEmphForward ==
    /\ filt # NoObj
    /\ result' = [op |-> "PreEmph"] @@ PreEmph_forward(filt, output, target)
    /\ UNCHANGED <<output, target, filt, wrapper, pc, args, idx, acc, ret, track, passed>>

NextFilter ==
    \/ ConstructPreEmph
    \/ PreEmphForward

SpecFilter == InitFilter /\ [][NextFilter]_vars

(***************************************************************************)
(* LossWrapper: a weighted sum of the metrics named by the losses mapping.  *)
(* A mapping is the sequence of its (key, weight) items in insertion order. *)
(***************************************************************************)
Keys == {"ESR", "DC", "ESRPre", "FOO"}

Weights == {FromRatio(1, 2), FromRatio(1, 1)}

KeyOf(item) == item[1]

ValueOf(item) == item[2]

Mappings(n) ==
    UNION {{m \in SeqsOf(Keys \X Weights, k) :
               \A i, j \in 1..k : i # j => KeyOf(m[i]) # KeyOf(m[j])} : k \in 0..n}

\* pre_filt: None, or a list of coefficients
None == [given |-> FALSE, cfs |-> <<>>]

Coeffs(cfs) == [given |-> TRUE, cfs |-> cfs]

PreFilts(n) == {None} \cup {Coeffs(cfs) : cfs \in TapSeqs(n)}

\* Python truth value of pre_filt
Truthy(pre_filt) == pre_filt.given /\ pre_filt.cfs # <<>>

\* loss_dict as LossWrapper.__init__ builds it; the ESRPre entry is the lambda,
\* which keeps the filter and the dictionary's ESR entry it looks up when called
LossDict(pre_filt) ==
    LET base == [k \in {"ESR", "DC"} |-> IF k = "ESR" THEN ESRLoss_init ELSE DCLoss_init]
    IN  IF Truthy(pre_filt)
        THEN [k \in {"ESR", "DC", "ESRPre"} |->
                 IF k = "ESRPre"
                 THEN [cls |-> "lambda", loss_dict |-> base,
                       pre_filt |-> PreEmph_init(pre_filt.cfs, 0)]
                 ELSE base[k]]
        ELSE base

Built(self, losses, pre_filt) ==
    [built |-> TRUE, err |-> "", self |-> self, losses |-> losses, pre_filt |-> pre_filt]

Failed(e, losses, pre_filt) ==
    [built |-> FALSE, err |-> e, self |-> NoObj, losses |-> losses, pre_filt |-> pre_filt]

\* a constructor that resolves no key: every item is kept, an unknown key as a
\* placeholder that fails when it is called
LossWrapper_init_Lazy(losses, pre_filt) ==
    LET loss_dict == LossDict(pre_filt)
    IN  Built([cls |-> "LossWrapper",
               loss_functions |-> [i \in 1..Len(losses) |->
                   IF KeyOf(losses[i]) \in DOMAIN loss_dict
                   THEN loss_dict[KeyOf(losses[i])] ELSE [cls |-> "missing"]],
               loss_factors |-> [i \in 1..Len(losses) |-> ValueOf(losses[i])]],
              losses, pre_filt)

LossWrapper_init(losses, pre_filt) ==
    LET loss_dict == LossDict(pre_filt)
    IN  IF \E i \in 1..Len(losses) : KeyOf(losses[i]) \notin DOMAIN loss_dict
        THEN Failed("KeyError", losses, pre_filt)
        ELSE Built([cls |-> "LossWrapper",
                    loss_functions |-> [i \in 1..Len(losses) |-> loss_dict[KeyOf(losses[i])]],
                    loss_factors |-> [i \in 1..Len(losses) |-> ValueOf(losses[i])]],
                   losses, pre_filt)

\* losses(output, target) for one entry of self.loss_functions
CallMetric(m, out, tgt) ==
    CASE m.cls = "ESRLoss" -> ESRLoss_forward(m, out, tgt)
      [] m.cls = "DCLoss" -> DCLoss_forward(m, out, tgt)
      [] m.cls = "lambda" ->
            IF "ESR" \notin DOMAIN m.loss_dict THEN Raise("KeyError")
            ELSE LET f == PreEmph_forward(m.pre_filt, out, tgt)
                 IN  IF f.err # "" THEN Raise(f.err)
                     ELSE ESRLoss_forward(m.loss_dict["ESR"], f.out, f.tgt)
      [] OTHER -> Raise("KeyError")

\* every loss function weighted by the first factor
FactorIndexFirst(i) == 1

\* the index of the loss factor the loop uses for loss function i
FactorIndex(i) == i

\* torch.mul(losses(output, target), self.loss_factors[i])
Term(self, i, out, tgt) ==
    LET r == CallMetric(self.loss_functions[i], out, tgt)
    IN  IF r.err # "" THEN r ELSE Ok(FMul(r.val, self.loss_factors[FactorIndex(i)]))

RECURSIVE LoopFrom(_, _, _, _, _)
LoopFrom(self, i, loss, out, tgt) ==
    IF i > Len(self.loss_functions) THEN Ok(loss)
    ELSE LET r == Term(self, i, out, tgt)
         IN  IF r.err # "" THEN r
             ELSE LoopFrom(self, i + 1, FAdd(loss, r.val), out, tgt)

LossWrapper_forward(self, out, tgt) == LoopFrom(self, 1, Zero, out, tgt)

(***************************************************************************)
(* Specification of the aggregator: one LossWrapper is constructed from a   *)
(* mapping and optional coefficients, then applied to the caller's pair.    *)
(***************************************************************************)
ProbeShapes == {<<1, 1>>, <<2, 1>>, <<1, 2>>}

ProbeSignals ==
    UNION {Tensors(s[1], s[2], Bits) : s \in ProbeShapes} \cup {<<<<1>>, <<0>>, <<1>>>>}

InitWrapper ==
    /\ output \in ProbeSignals
    /\ target \in ProbeSignals
    /\ result = NoResult
    /\ Quiet

ConstructLossWrapper ==
    /\ wrapper = NoObj
    /\ \E losses \in Mappings(MaxKeys), pre_filt \in PreFilts(MaxPreTaps) :
          wrapper' = LossWrapper_init(losses, pre_filt)
    /\ UNCHANGED <<output, target, result, filt, pc, args, idx, acc, ret, track, passed>>

LossWrapperForward ==
    /\ wrapper # NoObj
    /\ wrapper.built
    /\ result' = Called("LossWrapper", 1, LossWrapper_forward(wrapper.self, output, target))
    /\ UNCHANGED <<output, target, filt, wrapper, pc, args, idx, acc, ret, track, passed>>

NextWrapper ==
    \/ ConstructLossWrapper
    \/ LossWrapperForward

SpecWrapper == InitWrapper /\ [][NextWrapper]_vars

(***************************************************************************)
(* Concurrent callers of one LossWrapper.  Each thread runs forward on its  *)
(* own pair: loss = 0, one loop iteration per loss function, return.  The   *)
(* accumulator loss is a local of the call; self is shared.                 *)
(***************************************************************************)
Sig(a, b) == <<<<a>>, <<b>>>>

ConcPairs ==
    {<<Sig(1, 0), Sig(1, 1)>>, <<Sig(0, 1), Sig(1, 0)>>, <<Sig(1, 1), <<<<1>>, <<0>>, <<1>>>>>>}

NoReturn == [done |-> FALSE, out |-> Sig(0, 0), tgt |-> Sig(0, 0), err |-> "", val |-> Zero]

Returned(pair, r) == [done |-> TRUE, out |-> pair[1], tgt |-> pair[2], err |-> r.err, val |-> r.val]

\* one accumulator shared by all calls
AccSlotShared(th) == 1

\* the storage that holds the accumulator of thread th's call
AccSlot(th) == th

InitConcurrent ==
    /\ output = NoPair[1]
    /\ target = NoPair[2]
    /\ result = NoResult
    /\ filt = NoObj
    /\ wrapper \in {LossWrapper_init(l, p) : l \in Mappings(MaxKeys), p \in PreFilts(MaxPreTaps)}
    /\ wrapper.built
    /\ pc = Idle
    /\ args = [th \in Threads |-> NoPair]
    /\ idx = [th \in Threads |-> 0]
    /\ acc = [th \in Threads |-> Zero]
    /\ ret = [th \in Threads |-> NoReturn]
    /\ track = TrackInit
    /\ passed = <<>>

CallForward(th, pair) ==
    /\ pc[th] = "idle"
    /\ pc' = [pc EXCEPT ![th] = "loop"]
    /\ args' = [args EXCEPT ![th] = pair]
    /\ idx' = [idx EXCEPT ![th] = 1]
    /\ acc' = [acc EXCEPT ![AccSlot(th)] = Zero]
    /\ ret' = [ret EXCEPT ![th] = NoReturn]
    /\ UNCHANGED <<output, target, result, filt, wrapper, track, passed>>

LoopStep(th) ==
    /\ pc[th] = "loop"
    /\ idx[th] <= Len(wrapper.self.loss_functions)
    /\ LET r == Term(wrapper.self, idx[th], args[th][1], args[th][2])
       IN  IF r.err # ""
           THEN /\ pc' = [pc EXCEPT ![th] = "idle"]
                /\ ret' = [ret EXCEPT ![th] = Returned(args[th], r)]
                /\ UNCHANGED <<idx, acc>>
           ELSE /\ acc' = [acc EXCEPT ![AccSlot(th)] = FAdd(acc[AccSlot(th)], r.val)]
                /\ idx' = [idx EXCEPT ![th] = idx[th] + 1]
                /\ UNCHANGED <<pc, ret>>
    /\ UNCHANGED <<output, target, result, filt, wrapper, args, track, passed>>

ReturnLoss(th) ==
    /\ pc[th] = "loop"
    /\ idx[th] > Len(wrapper.self.loss_functions)
    /\ pc' = [pc EXCEPT ![th] = "idle"]
    /\ ret' = [ret EXCEPT ![th] = Returned(args[th], Ok(acc[AccSlot(th)]))]
    /\ UNCHANGED <<output, target, result, filt, wrapper, args, idx, acc, track, passed>>

NextConcurrent ==
    \/ \E th \in Threads, pair \in ConcPairs : CallForward(th, pair)
    \/ \E th \in Threads : LoopStep(th)
    \/ \E th \in Threads : ReturnLoss(th)

SpecConcurrent == InitConcurrent /\ [][NextConcurrent]_vars

(***************************************************************************)
(* TrainTrack: the dictionary of a training run.  restore_data is left out: *)
(* the runs considered start from a fresh TrainTrack and only update it.    *)
(***************************************************************************)
InitialBest == Frac(FALSE, MagMul(ToMag(1000000), ToMag(1000000)), ToMag(1))

LossVals == {FromRatio(1, 2), FromRatio(3, 1), FMul(FromRatio(2, 1), InitialBest)}

Clock == {0, 2}

Spans == {s \in Clock \X Clock : s[1] <= s[2]}

TrainTrack_init ==
    [cls |-> "TrainTrack",
     current_epoch |-> 0,
     training_losses |-> <<>>,
     validation_losses |-> <<>>,
     train_av_time |-> Zero,
     val_av_time |-> Zero,
     total_time |-> Zero,
     best_val_loss |-> InitialBest,
     test_loss |-> 0]

\* Python truth value of a float
NonZero(x) == x.n # <<>>

Number(x) == FromRatio(x, 1)

\* (av + ep_end_time - ep_st_time) / 2, or ep_end_time - ep_st_time
AvTime(av, ep_st_time, ep_end_time) ==
    IF NonZero(av)
    THEN FDiv(FAdd(av, Number(ep_end_time - ep_st_time)), Number(2))
    ELSE Number(ep_end_time - ep_st_time)

\* the comparison the other way round
ImprovesFlipped(loss, best) == FLess(best, loss)

\* loss < self['best_val_loss']
Improves(loss, best) == FLess(loss, best)

Calls(d) == Len(d.training_losses) + Len(d.validation_losses)

InitTrack ==
    /\ output = NoPair[1]
    /\ target = NoPair[2]
    /\ result = NoResult
    /\ filt = NoObj
    /\ wrapper = NoObj
    /\ pc = Idle
    /\ args = [th \in Threads |-> NoPair]
    /\ idx = [th \in Threads |-> 0]
    /\ acc = [th \in Threads |-> Zero]
    /\ ret = [th \in Threads |-> NoResult]
    /\ track = TrainTrack_init
    /\ passed = <<>>

train_epoch_update(loss, ep_st_time, ep_end_time, init_time, current_ep) ==
    /\ Calls(track) < MaxCalls
    /\ track' = [track EXCEPT
                   !.train_av_time = AvTime(@, ep_st_time, ep_end_time),
                   !.training_losses = Append(@, loss),
                   !.current_epoch = current_ep,
                   !.total_time = FAdd(@, FDiv(Number(init_time + ep_end_time - ep_st_time),
                                               Number(3600)))]
    /\ UNCHANGED <<output, target, result, filt, wrapper, pc, args, idx, acc, ret, passed>>

val_epoch_update(loss, ep_st_time, ep_end_time) ==
    /\ Calls(track) < MaxCalls
    /\ track' = [track EXCEPT
                   !.val_av_time = AvTime(@, ep_st_time, ep_end_time),
                   !.validation_losses = Append(@, loss),
                   !.best_val_loss = IF Improves(loss, @) THEN loss ELSE @]
    /\ passed' = Append(passed, loss)
    /\ UNCHANGED <<output, target, result, filt, wrapper, pc, args, idx, acc, ret>>

NextTrack ==
    \/ \E loss \in LossVals, s \in Spans, init_time \in {0, 1}, ep \in 1..MaxCalls :
          train_epoch_update(loss, s[1], s[2], init_time, ep)
    \/ \E loss \in LossVals, s \in Spans : val_epoch_update(loss, s[1], s[2])

SpecTrack == InitTrack /\ [][NextTrack]_vars

(***************************************************************************)
(* Properties.                                                              *)
(***************************************************************************)
SameShape == Shape(output) = Shape(target)

MetricCalled == result.op \in {"ESR", "DC"}

\* the metric object a recorded call was made on
MetricOf(op) == IF op = "ESR" THEN ESRLoss_init ELSE DCLoss_init

\* C1: for every coefficient sequence of length k >= 2, every input length
\* T >= 1 and both settings of the low-pass flag, PreEmph.forward returns an
\* output and a target whose time length is T.
C1_LengthPreserved ==
    (result.op = "PreEmph" /\ Len(filt.conv_filter) >= 2)
        => /\ result.err = ""
           /\ TLen(result.out) = TLen(output)
           /\ TLen(result.tgt) = TLen(target)

\* C2: a call of a metric on an output and a target of different shapes ends
\* in an error and returns no loss value.
C2_ShapeMismatchFails ==
    (MetricCalled /\ ~SameShape) => result.err # ""

\* the configurations the constructor is to reject: a key outside
\* {ESR, DC, ESRPre}, or ESRPre with pre_filt absent or empty
Rejected(losses, pre_filt) ==
    \E i \in 1..Len(losses) :
        \/ KeyOf(losses[i]) \notin {"ESR", "DC", "ESRPre"}
        \/ KeyOf(losses[i]) = "ESRPre" /\ (~pre_filt.given \/ Len(pre_filt.cfs) = 0)

\* C3: constructing a LossWrapper fails, with no aggregator produced, exactly
\* for a key outside {ESR, DC, ESRPre} or ESRPre without coefficients; a
\* constructed aggregator never fails in forward because of a metric key.
C3_KeyErrorsAtConstruction ==
    wrapper # NoObj =>
        /\ wrapper.built <=> ~Rejected(wrapper.losses, wrapper.pre_filt)
        /\ ~wrapper.built => (wrapper.err = "KeyError" /\ wrapper.self = NoObj)
        /\ result.op = "LossWrapper" => (wrapper.built /\ result.err # "KeyError")

C3_Witness ==
    /\ wrapper # NoObj
    /\ ~wrapper.built
    /\ wrapper.pre_filt = Coeffs(<<>>)
    /\ \A i \in 1..Len(wrapper.losses) : KeyOf(wrapper.losses[i]) \in {"ESR", "ESRPre"}
    /\ Len(wrapper.losses) = 2

\* C4: no PreEmph filter with fewer than 2 coefficients is ever produced:
\* constructing one fails.
C4_ShortFilterRejected ==
    filt # NoObj => Len(filt.conv_filter) >= 2

\* ESR of the unscaled pair
UnscaledESR == ESRLoss_forward(ESRLoss_init, output, target).val

\* C5 as stated: ESR of (c*output, c*target) equals ESR of (output, target)
\* for every nonzero c.
C5_ScaleInvariant ==
    (result.op = "ESR" /\ SameShape) => FEq(result.val, UnscaledESR)

\* C5 amended: ESR of (c*output, c*target) is
\* c^2 * mean((target - output)^2) / (c^2 * mean(target^2) + epsilon), and it
\* equals ESR of (output, target) exactly when c*c = 1 or output = target.
C5_ScaleLaw ==
    (result.op = "ESR" /\ SameShape) =>
        LET c2 == Number(result.c * result.c)
            diff == [t \in 1..TLen(target) |->
                        [b \in 1..BLen(target) |-> target[t][b] - output[t][b]]]
            mse == FromRatio(SumAll(Squared(diff)), Numel(target))
            sig == FromRatio(SumAll(Squared(target)), Numel(target))
        IN  /\ result.err = ""
            /\ FEq(result.val, FDiv(FMul(c2, mse), FAdd(FMul(c2, sig), Epsilon)))
            /\ FEq(result.val, UnscaledESR) <=> (result.c * result.c = 1 \/ output = target)

C5_Witness ==
    /\ result.op = "ESR"
    /\ result.c = 2
    /\ SameShape
    /\ output # target
    /\ ~ZeroSignal(target)
    /\ ~FEq(result.val, UnscaledESR)

\* the value paired with a key of the mapping
WeightOf(losses, key) == ValueOf(losses[CHOOSE i \in 1..Len(losses) : KeyOf(losses[i]) = key])

HasKey(losses, key) == \E i \in 1..Len(losses) : KeyOf(losses[i]) = key

\* metric(key)(output, target): ESR, DC, or ESR of the pre-emphasised pair
MetricValue(key, pre_filt, out, tgt) ==
    CASE key = "ESR" -> ESRLoss_forward(ESRLoss_init, out, tgt).val
      [] key = "DC" -> DCLoss_forward(DCLoss_init, out, tgt).val
      [] key = "ESRPre" ->
            LET f == PreEmph_forward(PreEmph_init(pre_filt.cfs, 0), out, tgt)
            IN  ESRLoss_forward(ESRLoss_init, f.out, f.tgt).val

Contribution(losses, pre_filt, key, out, tgt) ==
    IF HasKey(losses, key)
    THEN FMul(WeightOf(losses, key), MetricValue(key, pre_filt, out, tgt))
    ELSE Zero

\* the sum over the requested keys, taken in a fixed order of the keys
WeightedSum(losses, pre_filt, out, tgt) ==
    FAdd(Contribution(losses, pre_filt, "ESRPre", out, tgt),
         FAdd(Contribution(losses, pre_filt, "DC", out, tgt),
              Contribution(losses, pre_filt, "ESR", out, tgt)))

\* C6: forward of a constructed LossWrapper on an equal-shaped pair returns
\* the sum over the requested keys of weight(key) * metric(key)(output,
\* target), each key once with its own weight, whatever the insertion order.
C6_WeightedSum ==
    (result.op = "LossWrapper" /\ SameShape) =>
        /\ result.err = ""
        /\ FEq(result.val, WeightedSum(wrapper.losses, wrapper.pre_filt, output, target))

C6_Witness ==
    /\ result.op = "LossWrapper"
    /\ SameShape
    /\ wrapper.losses = <<<<"DC", FromRatio(1, 1)>>, <<"ESR", FromRatio(1, 2)>>>>
    /\ result.err = ""
    /\ FPositive(result.val)
    /\ ~FEq(DCLoss_forward(DCLoss_init, output, target).val,
            ESRLoss_forward(ESRLoss_init, output, target).val)

\* C7: forward calls interleaved on one LossWrapper leave its loss functions,
\* factors, epsilons and coefficients as constructed, and each call returns
\* what it returns when it is the only call made with its pair.
C7_CallsIndependent ==
    /\ wrapper = LossWrapper_init(wrapper.losses, wrapper.pre_filt)
    /\ \A th \in Threads :
          ret[th].done =>
              LET solo == LossWrapper_forward(wrapper.self, ret[th].out, ret[th].tgt)
              IN  /\ ret[th].err = solo.err
                  /\ FEq(ret[th].val, solo.val)

C7_Witness ==
    /\ Len(wrapper.self.loss_functions) = 2
    /\ pc[1] = "loop"
    /\ idx[1] = 2
    /\ ret[2].done
    /\ ret[2].err = ""
    /\ args[1] # <<ret[2].out, ret[2].tgt>>
    /\ FPositive(ret[2].val)
    /\ FPositive(acc[1])

\* C8: ESR(S, S) = 0 and DC(S, S) = 0 for every signal S, all zeros included.
C8_ZeroOnEqual ==
    (MetricCalled /\ output = target) =>
        /\ result.err = ""
        /\ FEq(result.val, Zero)

C8_Witness ==
    /\ result.op = "DC"
    /\ output = target
    /\ ~ZeroSignal(target)
    /\ SumAll(target) # 0

\* C9: on an equal-shaped pair the denominator mean(target^2) + epsilon of
\* ESR and of DC is strictly positive, also for an all-zero target, and the
\* metric returns a defined value >= 0.
C9_DenominatorPositive ==
    (MetricCalled /\ SameShape) =>
        /\ FPositive(Energy(MetricOf(result.op), Scaled(result.c, target)))
        /\ result.err = ""
        /\ FNonNeg(result.val)

C9_Witness ==
    /\ result.op = "ESR"
    /\ SameShape
    /\ ZeroSignal(target)
    /\ ~ZeroSignal(output)
    /\ FPositive(result.val)

\* the least of 1e12 and the losses passed to val_epoch_update
IsLeast(x, losses) ==
    /\ x = InitialBest \/ \E i \in 1..Len(losses) : x = losses[i]
    /\ ~FLess(InitialBest, x)
    /\ \A i \in 1..Len(losses) : ~FLess(losses[i], x)

\* C10: from a fresh TrainTrack, best_val_loss is the minimum of 1e12 and the
\* losses passed to val_epoch_update, it never increases, validation_losses
\* holds those losses in call order, and train_epoch_update changes neither.
C10_BestIsMinimum ==
    /\ [](IsLeast(track.best_val_loss, passed) /\ track.validation_losses = passed)
    /\ [][~FLess(track.best_val_loss, track.best_val_loss')]_vars
    /\ [][track.training_losses' # track.training_losses
             => /\ track.best_val_loss' = track.best_val_loss
                /\ track.validation_losses' = track.validation_losses]_vars

C10_Witness ==
    /\ Len(passed) = 2
    /\ passed[1] = FromRatio(1, 2)
    /\ passed[2] = FromRatio(3, 1)
    /\ Len(track.training_losses) = 1
    /\ track.best_val_loss = FromRatio(1, 2)

====
